---- MODULE Spec2Model ----
(***************************************************************************)
(* The incremental ETL pipeline of dags/modules: transform2.py normalises  *)
(* the latest raw batch (watermark filter, default filling, identifiers,   *)
(* de-duplication, DailyReturn), aggregated2.py reduces the normalised     *)
(* batch to one row per CompanyID over eight facets, and the load stage    *)
(* advances the stored date boundary the next run reads as its watermark.  *)
(*                                                                         *)
(* Numbers are pandas float64 values modelled exactly: a finite value is a *)
(* reduced fraction n/d, and NaN (a missing cell), +inf and -inf are kept  *)
(* as values of their own with the IEEE rules of numpy's arithmetic.       *)
(* Rounding is not modelled.  A Date is the day of January 2024, so the    *)
(* order on dates is the order on integers.  In-place fills of a column    *)
(* (df[col].fillna(v, inplace=True)) take effect, as they do in pandas 2.  *)
(***************************************************************************)
EXTENDS Integers, Sequences, FiniteSets, TLC

VARIABLES
    rawFile,      \* rows of the latest extracted_data_*.csv, in file order
    lastDate,     \* MAX(DateKey) of the staging store: None or <<date>>
    watermark,    \* last_processed_date handed to transform_data this run
    normalized,   \* rows of the latest transformed_data_*.csv
    aggregated,   \* rows of the latest aggregated_data_*.csv
    pc,           \* stage of the current run
    runs,         \* number of runs that ended, by a load or by a failure
    emitted,      \* (Symbol, Date) pairs written by runs already loaded
    clock,        \* the wall clock, in seconds
    dirs,         \* per output directory: timestamp of a file name |-> the write that made its content
    written,      \* per output directory: number of writes that succeeded
    error,        \* how the last stage ended for its caller: "none", "raised" or "swallowed"
    allData,      \* extract_data's all_data: the fetched rows kept so far in this run
    supplied      \* (Symbol, Date) pairs the provider has delivered so far

vars == <<rawFile, lastDate, watermark, normalized, aggregated, pc, runs, emitted,
          clock, dirs, written, error, allData, supplied>>

\* the variables of the extraction feed
feedVars == <<allData, supplied>>

\* the variables of the output directories
fileVars == <<clock, dirs, written>>

(* ------------------------------ bounds -------------------------------- *)

MaxRows == 2      \* rows of one raw batch
MaxDate == 2      \* dates are 1..MaxDate
MaxRuns == 2      \* runs of the pipeline in one behaviour
MaxWindowRows == 10   \* rows of one batch of the window runs

(* --------------------------- optional values --------------------------- *)

None == <<>>

Some(v) == <<v>>

(* ------------------------------ float64 -------------------------------- *)

Abs(x) == IF x < 0 THEN -x ELSE x

RECURSIVE GCD(_, _)
GCD(a, b) == IF b = 0 THEN a ELSE GCD(b, a % b)

NaN == [k |-> "nan", n |-> 0, d |-> 1]

Inf == [k |-> "inf", n |-> 1, d |-> 1]

NegInf == [k |-> "inf", n |-> -1, d |-> 1]

\* the finite value n/d (d # 0), reduced, with a positive denominator
Fin(n, d) ==
    LET g == GCD(Abs(n), Abs(d))
        s == IF d < 0 THEN -1 ELSE 1
    IN  [k |-> "fin", n |-> (s * n) \div g, d |-> (s * d) \div g]

Num(i) == Fin(i, 1)

IsFinite(a) == a.k = "fin"

IsNull(a) == a.k = "nan"

FNeg(a) == IF a.k = "nan" THEN a ELSE [a EXCEPT !.n = -a.n]

FAdd(a, b) ==
    CASE a.k = "nan" \/ b.k = "nan" -> NaN
      [] a.k = "inf" /\ b.k = "inf" -> IF a.n = b.n THEN a ELSE NaN
      [] a.k = "inf" -> a
      [] b.k = "inf" -> b
      [] OTHER -> Fin(a.n * b.d + b.n * a.d, a.d * b.d)

FSub(a, b) == FAdd(a, FNeg(b))

FMul(a, b) ==
    CASE a.k = "nan" \/ b.k = "nan" -> NaN
      [] a.k = "inf" \/ b.k = "inf" ->
            IF a.n = 0 \/ b.n = 0 THEN NaN
            ELSE IF (a.n > 0) = (b.n > 0) THEN Inf ELSE NegInf
      [] OTHER -> Fin(a.n * b.n, a.d * b.d)

\* numpy's division: x/0.0 is +-inf for x # 0 and NaN for x = 0
FDiv(a, b) ==
    CASE a.k = "nan" \/ b.k = "nan" -> NaN
      [] a.k = "inf" /\ b.k = "inf" -> NaN
      [] a.k = "inf" -> IF b.n < 0 THEN FNeg(a) ELSE a
      [] b.k = "inf" -> Num(0)
      [] b.n = 0 -> IF a.n = 0 THEN NaN ELSE IF a.n > 0 THEN Inf ELSE NegInf
      [] OTHER -> Fin(a.n * b.d, a.d * b.n)

\* Series.fillna(v): only a missing value (NaN) is replaced, never +-inf
fillna(a, v) == IF a.k = "nan" THEN v ELSE a

Max(S) == CHOOSE x \in S : \A y \in S : y <= x

\* the rows of df whose index is in keep, in the order of df
RECURSIVE TakeFrom(_, _, _)
TakeFrom(df, keep, i) ==
    IF i > Len(df) THEN <<>>
    ELSE (IF i \in keep THEN <<df[i]>> ELSE <<>>) \o TakeFrom(df, keep, i + 1)

Take(df, keep) == TakeFrom(df, keep, 1)

(* ----------------------------- transform2 ------------------------------ *)

COMPANY_ID_MAP ==
    "Apple Inc." :> 1 @@ "Microsoft Corp." :> 2 @@ "Alphabet Inc." :> 3
    @@ "Amazon.com Inc." :> 4 @@ "Netflix Inc." :> 5

\* dict.get(company_name, 0): an unknown company gets the id 0
map_company_id_or_zero(company_name) ==
    IF company_name \in DOMAIN COMPANY_ID_MAP
    THEN Num(COMPANY_ID_MAP[company_name])
    ELSE Num(0)

\* dict.get(company_name, None); a None in a numeric column is NaN
map_company_id(company_name) ==
    IF company_name \in DOMAIN COMPANY_ID_MAP
    THEN Num(COMPANY_ID_MAP[company_name])
    ELSE NaN

\* uuid4: a value no other row of any run gets
generate_record_id(run, i) == <<run, i>>

\* strftime('%Y%m%d').astype(int) of a day of January 2024
DateID(date) == 20240100 + date

\* df[df['Date'] >= watermark]: the boundary date is kept
FilterInclusive(df, w) ==
    IF w # None THEN SelectSeq(df, LAMBDA r : r.Date >= w[1]) ELSE df

\* the batch is never filtered
FilterNever(df, w) == df

\* if last_processed_date: df = df[df['Date'] > last_processed_date]
FilterByWatermark(df, w) ==
    IF w # None THEN SelectSeq(df, LAMBDA r : r.Date > w[1]) ELSE df

\* df.fillna({'OpenPrice': 0.0, 'High': 0.0, 'Low': 0.0, 'ClosePrice': 0.0, 'Volume': 0})
FillMissing(r) ==
    [r EXCEPT !.OpenPrice = fillna(@, Num(0)),
              !.High = fillna(@, Num(0)),
              !.Low = fillna(@, Num(0)),
              !.ClosePrice = fillna(@, Num(0)),
              !.Volume = fillna(@, Num(0))]

\* RecordID, CompanyID and DateID columns
AddIds(df, run) ==
    [i \in 1..Len(df) |->
        [RecordID |-> generate_record_id(run, i),
         CompanyID |-> map_company_id(df[i].CompanyName),
         Symbol |-> df[i].Symbol,
         CompanyName |-> df[i].CompanyName,
         DateID |-> DateID(df[i].Date),
         Date |-> df[i].Date,
         OpenPrice |-> df[i].OpenPrice,
         High |-> df[i].High,
         Low |-> df[i].Low,
         ClosePrice |-> df[i].ClosePrice,
         Volume |-> df[i].Volume]]

\* no rows are dropped
KeepAllRows(df) == df

\* drop_duplicates(subset=['Symbol', 'Date']) keeps the first row of each pair
drop_duplicates(df) ==
    Take(df, {i \in 1..Len(df) :
                \A j \in 1..(i - 1) :
                    df[j].Symbol # df[i].Symbol \/ df[j].Date # df[i].Date})

\* groupby('Symbol')['ClosePrice'].shift(1): the ClosePrice of the row of the
\* same Symbol that precedes row i in the frame, NaN when there is none
PreviousClosePrice(df, i) ==
    LET before == {j \in 1..(i - 1) : df[j].Symbol = df[i].Symbol}
    IN  IF before = {} THEN NaN ELSE df[Max(before)].ClosePrice

\* (ClosePrice - PreviousClosePrice) / PreviousClosePrice, then fillna(0)
DailyReturnOf(df, i) ==
    LET p == PreviousClosePrice(df, i)
    IN  fillna(FDiv(FSub(df[i].ClosePrice, p), p), Num(0))

\* the rows transform_data writes to output_file, in order
transform_data(df, w, run) ==
    LET filtered == FilterByWatermark(df, w)
        filled == [i \in 1..Len(filtered) |-> FillMissing(filtered[i])]
        withIds == AddIds(filled, run)
        deduped == drop_duplicates(withIds)
    IN  [i \in 1..Len(deduped) |->
            [RecordID |-> deduped[i].RecordID,
             CompanyID |-> deduped[i].CompanyID,
             Symbol |-> deduped[i].Symbol,
             CompanyName |-> deduped[i].CompanyName,
             DateID |-> deduped[i].DateID,
             Date |-> deduped[i].Date,
             OpenPrice |-> deduped[i].OpenPrice,
             High |-> deduped[i].High,
             Low |-> deduped[i].Low,
             ClosePrice |-> deduped[i].ClosePrice,
             Volume |-> deduped[i].Volume,
             DailyReturn |-> DailyReturnOf(deduped, i)]]

(* ----------------------------- aggregated2 ----------------------------- *)

RECURSIVE SortAsc(_)
SortAsc(S) ==
    IF S = {} THEN <<>>
    ELSE LET m == CHOOSE x \in S : \A y \in S : x.n <= y.n
         IN  <<m>> \o SortAsc(S \ {m})

\* groupby('CompanyID'): the distinct keys in ascending order; dropna=True
\* leaves the rows whose CompanyID is null out of every group
GroupKeys(df) ==
    SortAsc({df[i].CompanyID : i \in 1..Len(df)} \ {NaN})

\* the rows of one group, in the order of the frame
GroupRows(df, c) == SelectSeq(df, LAMBDA r : r.CompanyID = c)

\* skipna: the values that are not missing
NotNull(xs) == SelectSeq(xs, LAMBDA x : ~IsNull(x))

RECURSIVE Total(_, _)
Total(xs, i) == IF i > Len(xs) THEN Num(0) ELSE FAdd(xs[i], Total(xs, i + 1))

\* 'sum'
FSum(xs) == Total(NotNull(xs), 1)

\* 'mean'
FMean(xs) ==
    LET ys == NotNull(xs)
    IN  IF Len(ys) = 0 THEN NaN ELSE FDiv(Total(ys, 1), Num(Len(ys)))

\* the square root, kept symbolic: sqrt(n/d)
FSqrt(a) == IF a.k = "fin" THEN [a EXCEPT !.k = "sqrt"] ELSE a

\* 'std' (ddof=1): NaN for fewer than two values
FStd(xs) ==
    LET ys == NotNull(xs)
        m == FMean(ys)
        sq == [k \in 1..Len(ys) |-> FMul(FSub(ys[k], m), FSub(ys[k], m))]
    IN  IF Len(ys) < 2 THEN NaN
        ELSE FSqrt(FDiv(Total(sq, 1), Num(Len(ys) - 1)))

\* 'last': the last value of the group that is not missing
FLast(xs) ==
    LET ys == NotNull(xs)
    IN  IF Len(ys) = 0 THEN NaN ELSE ys[Len(ys)]

\* a return taken over the closing price of the day itself
GroupDailyReturnOverClose(g) ==
    [k \in 1..Len(g) |->
        LET p == IF k = 1 THEN NaN ELSE g[k - 1].ClosePrice
        IN  fillna(FDiv(FSub(g[k].ClosePrice, p), g[k].ClosePrice), Num(0))]

\* groupby('CompanyID')['ClosePrice'].shift(1), then DailyReturn and fillna(0)
GroupDailyReturn(g) ==
    [k \in 1..Len(g) |->
        LET p == IF k = 1 THEN NaN ELSE g[k - 1].ClosePrice
        IN  fillna(FDiv(FSub(g[k].ClosePrice, p), p), Num(0))]

\* a rolling mean that is given as soon as one row is in the window
MovingAvgMinPeriods(g, w) ==
    [k \in 1..Len(g) |->
        LET from == IF k < w THEN 1 ELSE k - w + 1
            win == [j \in 1..(k - from + 1) |-> g[from + j - 1].ClosePrice]
        IN  fillna(FDiv(Total(NotNull(win), 1), Num(Len(NotNull(win)))), Num(0))]

\* x.rolling(window=w).mean() within the group, then fillna(0)
MovingAvg(g, w) ==
    [k \in 1..Len(g) |->
        LET win == [j \in 1..w |-> g[k - w + j].ClosePrice]
        IN  IF k < w \/ Len(NotNull(win)) < w THEN Num(0)
            ELSE fillna(FDiv(Total(win, 1), Num(w)), Num(0))]

\* a change taken against the row p - 1 rows earlier
TrendOnePeriodShort(g, p) ==
    [k \in 1..Len(g) |->
        IF k < p THEN Num(0)
        ELSE fillna(FMul(FSub(FDiv(g[k].ClosePrice, g[k - p + 1].ClosePrice), Num(1)),
                         Num(100)), Num(0))]

\* pct_change(periods=p) * 100 within the group, then fillna(0)
Trend(g, p) ==
    [k \in 1..Len(g) |->
        IF k <= p THEN Num(0)
        ELSE fillna(FMul(FSub(FDiv(g[k].ClosePrice, g[k - p].ClosePrice), Num(1)),
                         Num(100)), Num(0))]

\* High / Low, then fillna(0)
HighLowRatio(r) == fillna(FDiv(r.High, r.Low), Num(0))

\* (OpenPrice + ClosePrice) / 2
AverageDailyPrice(r) == FDiv(FAdd(r.OpenPrice, r.ClosePrice), Num(2))

\* 1. company_performance_summary
company_performance_summary(df) ==
    LET keys == GroupKeys(df)
    IN  [x \in 1..Len(keys) |->
            LET g == GroupRows(df, keys[x])
            IN  [CompanyID |-> keys[x],
                 AverageDailyPrice |-> FMean([k \in 1..Len(g) |-> AverageDailyPrice(g[k])]),
                 TotalVolume |-> FSum([k \in 1..Len(g) |-> g[k].Volume]),
                 DailyReturn |-> FMean([k \in 1..Len(g) |-> fillna(g[k].DailyReturn, Num(0))])]]

\* 2. total_trading_volume
total_trading_volume(df) ==
    LET keys == GroupKeys(df)
    IN  [x \in 1..Len(keys) |->
            LET g == GroupRows(df, keys[x])
            IN  [CompanyID |-> keys[x],
                 TotalTradingVolume |-> FSum([k \in 1..Len(g) |-> g[k].Volume])]]

\* 3. daily_returns, recomputed from ClosePrice within each CompanyID
daily_returns(df) ==
    LET keys == GroupKeys(df)
    IN  [x \in 1..Len(keys) |->
            [CompanyID |-> keys[x],
             DailyReturn |-> FMean(GroupDailyReturn(GroupRows(df, keys[x])))]]

\* 4. volatility_index
volatility_index(df) ==
    LET keys == GroupKeys(df)
    IN  [x \in 1..Len(keys) |->
            [CompanyID |-> keys[x],
             VolatilityIndex |-> FStd(GroupDailyReturn(GroupRows(df, keys[x])))]]

\* 5. moving_averages
moving_averages(df) ==
    LET keys == GroupKeys(df)
    IN  [x \in 1..Len(keys) |->
            [CompanyID |-> keys[x],
             MovingAvg5Day |-> FLast(MovingAvg(GroupRows(df, keys[x]), 5)),
             MovingAvg10Day |-> FLast(MovingAvg(GroupRows(df, keys[x]), 10))]]

\* 6. trend_analysis
trend_analysis(df) ==
    LET keys == GroupKeys(df)
    IN  [x \in 1..Len(keys) |->
            [CompanyID |-> keys[x],
             TrendAnalysis |-> FMean(Trend(GroupRows(df, keys[x]), 5))]]

\* 7. high_low_ratios
high_low_ratios(df) ==
    LET keys == GroupKeys(df)
    IN  [x \in 1..Len(keys) |->
            LET g == GroupRows(df, keys[x])
            IN  [CompanyID |-> keys[x],
                 HighLowRatio |-> FMean([k \in 1..Len(g) |-> HighLowRatio(g[k])])]]

\* 8. volume_analysis
volume_analysis(df) ==
    LET keys == GroupKeys(df)
    IN  [x \in 1..Len(keys) |->
            LET g == GroupRows(df, keys[x])
            IN  [CompanyID |-> keys[x],
                 AverageVolume |-> FMean([k \in 1..Len(g) |-> g[k].Volume])]]

\* the place of row i within its CompanyID group
GroupIndex(df, i) == Cardinality({j \in 1..i : df[j].CompanyID = df[i].CompanyID})

\* the columns aggregate_data adds to the frame it was given, row by row;
\* a row whose CompanyID is null is in no group and gets the fill value
derived_columns(df) ==
    LET keys == GroupKeys(df)
        cols == [x \in 1..Len(keys) |->
                    LET g == GroupRows(df, keys[x])
                    IN  [DailyReturn |-> GroupDailyReturn(g),
                         MovingAvg5 |-> MovingAvg(g, 5),
                         MovingAvg10 |-> MovingAvg(g, 10),
                         Trend |-> Trend(g, 5)]]
    IN  [i \in 1..Len(df) |->
            LET k == GroupIndex(df, i)
                grouped == ~IsNull(df[i].CompanyID)
                x == CHOOSE y \in 1..Len(keys) : keys[y] = df[i].CompanyID
            IN  [Symbol |-> df[i].Symbol,
                 CompanyID |-> df[i].CompanyID,
                 Date |-> df[i].Date,
                 ClosePrice |-> df[i].ClosePrice,
                 DailyReturn |-> IF grouped THEN cols[x].DailyReturn[k] ELSE Num(0),
                 MovingAvg5 |-> IF grouped THEN cols[x].MovingAvg5[k] ELSE Num(0),
                 MovingAvg10 |-> IF grouped THEN cols[x].MovingAvg10[k] ELSE Num(0),
                 Trend |-> IF grouped THEN cols[x].Trend[k] ELSE Num(0),
                 HighLowRatio |-> HighLowRatio(df[i])]]

\* the columns of a frame, for the left rows that find no match
NullColumns(cols) == [c \in cols |-> NaN]

RECURSIVE Flatten(_, _)
Flatten(ss, i) == IF i > Len(ss) THEN <<>> ELSE ss[i] \o Flatten(ss, i + 1)

\* left.merge(right, on='CompanyID', how='left'): every left row, once per
\* right row of the same CompanyID, or once with missing values when none
LeftMerge(left, right, cols) ==
    Flatten([i \in 1..Len(left) |->
                LET hits == SelectSeq(right, LAMBDA r : r.CompanyID = left[i].CompanyID)
                IN  IF Len(hits) = 0 THEN <<left[i] @@ NullColumns(cols)>>
                    ELSE [h \in 1..Len(hits) |-> left[i] @@ hits[h]]], 1)

\* the merge's suffixes for the column both frames hold: DailyReturn_x (left)
SuffixX(f) ==
    [i \in 1..Len(f) |->
        [c \in (DOMAIN f[i] \ {"DailyReturn"}) \cup {"DailyReturn_x"} |->
            IF c = "DailyReturn_x" THEN f[i].DailyReturn ELSE f[i][c]]]

\* DailyReturn_y (right)
SuffixY(f) ==
    [i \in 1..Len(f) |->
        [c \in (DOMAIN f[i] \ {"DailyReturn"}) \cup {"DailyReturn_y"} |->
            IF c = "DailyReturn_y" THEN f[i].DailyReturn ELSE f[i][c]]]

\* the merged frame aggregate_data returns
aggregate_data(df) ==
    LET m1 == LeftMerge(company_performance_summary(df), total_trading_volume(df),
                        {"TotalTradingVolume"})
        m2 == LeftMerge(SuffixX(m1), SuffixY(daily_returns(df)), {"DailyReturn_y"})
        m3 == LeftMerge(m2, volatility_index(df), {"VolatilityIndex"})
        m4 == LeftMerge(m3, moving_averages(df), {"MovingAvg5Day", "MovingAvg10Day"})
        m5 == LeftMerge(m4, trend_analysis(df), {"TrendAnalysis"})
        m6 == LeftMerge(m5, high_low_ratios(df), {"HighLowRatio"})
    IN  LeftMerge(m6, volume_analysis(df), {"AverageVolume"})

(* ------------------------------ the runs ------------------------------- *)

\* the symbols a raw batch may hold; "Tesla Inc." is not in COMPANY_ID_MAP
Listings ==
    {[Symbol |-> "AAPL", CompanyName |-> "Apple Inc."],
     [Symbol |-> "MSFT", CompanyName |-> "Microsoft Corp."],
     [Symbol |-> "TSLA", CompanyName |-> "Tesla Inc."]}

\* the numeric cells of a raw row; NaN is a cell the provider left out
Quotes ==
    {[OpenPrice |-> Num(1), High |-> Num(2), Low |-> Num(1), ClosePrice |-> Num(1), Volume |-> Num(10)],
     [OpenPrice |-> Num(2), High |-> Num(3), Low |-> Num(2), ClosePrice |-> Num(2), Volume |-> Num(20)],
     [OpenPrice |-> NaN, High |-> Num(2), Low |-> NaN, ClosePrice |-> NaN, Volume |-> NaN],
     [OpenPrice |-> NaN, High |-> NaN, Low |-> NaN, ClosePrice |-> NaN, Volume |-> NaN]}

PlainQuotes ==
    {[OpenPrice |-> Num(1), High |-> Num(2), Low |-> Num(1), ClosePrice |-> Num(1), Volume |-> Num(10)]}

Dates == 1..MaxDate

Tick(l, d, q) ==
    [Symbol |-> l.Symbol, CompanyName |-> l.CompanyName, Date |-> d,
     OpenPrice |-> q.OpenPrice, High |-> q.High, Low |-> q.Low,
     ClosePrice |-> q.ClosePrice, Volume |-> q.Volume]

RawTicks == {Tick(l, d, q) : l \in Listings, d \in Dates, q \in Quotes}

PlainTicks == {Tick(l, d, q) : l \in Listings, d \in Dates, q \in PlainQuotes}

Pairs(df) == {<<df[i].Symbol, df[i].Date>> : i \in 1..Len(df)}

DatesOf(df) == {df[i].Date : i \in 1..Len(df)}

\* SELECT MAX(DateKey) FROM stg.stock_data; None when the store is empty
get_last_processed_date == lastDate

\* the name of an output file holds the clock to the second, and to_csv
\* replaces a file of that name: the directory after one more write
save_with_timestamp(d) ==
    [dirs EXCEPT ![d] = (clock :> (written[d] + 1)) @@ @]

\* a new extracted_data_*.csv becomes the latest raw file
NewRawFile(r) ==
    /\ pc = "idle"
    /\ rawFile' = <<r>>
    /\ pc' = "extract"
    /\ UNCHANGED <<lastDate, watermark, normalized, aggregated, runs, emitted, fileVars, error, feedVars>>

\* one more row of the raw file
WriteRawRow(r) ==
    /\ pc = "extract"
    /\ Len(rawFile) < MaxRows
    /\ rawFile' = Append(rawFile, r)
    /\ UNCHANGED <<lastDate, watermark, normalized, aggregated, pc, runs, emitted, fileVars, error, feedVars>>

\* the cutoff of extract_data: "2000-01-01", before every date, when the
\* store is empty
ExtractCutoff == IF get_last_processed_date = None THEN 0 ELSE get_last_processed_date[1]

\* extract_data, one row of one symbol's series: the row joins all_data
\* when its Date is after the cutoff
Fetch(r) ==
    /\ pc \in {"idle", "fetch"}
    /\ Len(allData) < MaxRows
    /\ supplied' = supplied \cup {<<r.Symbol, r.Date>>}
    /\ allData' = IF r.Date > ExtractCutoff THEN Append(allData, r) ELSE allData
    /\ pc' = "fetch"
    /\ UNCHANGED <<rawFile, lastDate, watermark, normalized, aggregated, runs, emitted, fileVars, error>>

\* extract_data, the end: the rows kept are saved as a new raw file, and
\* nothing is saved when there is none
SaveRaw ==
    /\ pc = "fetch"
    /\ rawFile' = IF Len(allData) > 0 THEN drop_duplicates(allData) ELSE rawFile
    /\ allData' = <<>>
    /\ pc' = "extract"
    /\ UNCHANGED <<lastDate, watermark, normalized, aggregated, runs, emitted, fileVars, error, supplied>>

\* transform2's main: the latest raw file (a new one, or the one of an
\* earlier run when the extraction saved nothing), the stored boundary,
\* then transform_data, whose last step writes the output file
Transform ==
    /\ pc \in {"idle", "extract"}
    /\ Len(rawFile) > 0
    /\ watermark' = get_last_processed_date
    /\ normalized' = transform_data(rawFile, get_last_processed_date, runs)
    /\ dirs' = save_with_timestamp("cleaned")
    /\ written' = [written EXCEPT !["cleaned"] = @ + 1]
    /\ error' = "none"
    /\ pc' = "transformed"
    /\ UNCHANGED <<rawFile, lastDate, aggregated, runs, emitted, clock, feedVars>>

\* transform2's main when a step fails: no raw file to pick, the store
\* out of reach, or an output file that cannot be opened; the exception
\* leaves the script
TransformFails(cause) ==
    /\ pc \in {"idle", "extract"}
    /\ (cause = "no_input") <=> (Len(rawFile) = 0)
    /\ error' = "raised"
    /\ pc' = "failed"
    /\ UNCHANGED <<rawFile, lastDate, watermark, normalized, aggregated, runs, emitted, fileVars, feedVars>>

\* aggregated2's main: the latest transformed file, then aggregate_data,
\* then save_with_timestamp
Aggregate ==
    /\ pc = "transformed"
    /\ aggregated' = aggregate_data(normalized)
    /\ dirs' = save_with_timestamp("aggregated")
    /\ written' = [written EXCEPT !["aggregated"] = @ + 1]
    /\ error' = "none"
    /\ pc' = "aggregated"
    /\ UNCHANGED <<rawFile, lastDate, watermark, normalized, runs, emitted, clock, feedVars>>

\* aggregated2's main when a step fails: no transformed file to pick, or
\* an output file that cannot be opened; main logs the exception and
\* returns
AggregateFails(cause) ==
    /\ pc \in {"idle", "transformed"}
    /\ (cause = "no_input") <=> (DOMAIN dirs["cleaned"] = {})
    /\ error' = "swallowed"
    /\ pc' = "failed"
    /\ UNCHANGED <<rawFile, lastDate, watermark, normalized, aggregated, runs, emitted, fileVars, feedVars>>

\* the load of the normalized rows: the stored boundary becomes the most
\* recent date loaded so far
LoadStaging ==
    /\ pc = "aggregated"
    /\ lastDate' = IF DatesOf(normalized) = {} THEN lastDate
                   ELSE IF lastDate = None THEN Some(Max(DatesOf(normalized)))
                   ELSE Some(Max(DatesOf(normalized) \cup {lastDate[1]}))
    /\ emitted' = emitted \cup Pairs(normalized)
    /\ runs' = runs + 1
    /\ pc' = "loaded"
    /\ UNCHANGED <<rawFile, watermark, normalized, aggregated, fileVars,
                   error, feedVars>>

\* the scheduler starts the next run, at a later second
NextRun ==
    /\ pc = "loaded"
    /\ runs < MaxRuns
    /\ pc' = "idle"
    /\ clock' = clock + 1
    /\ UNCHANGED <<rawFile, lastDate, watermark, normalized, aggregated, runs, emitted,
                   dirs, written, error, feedVars>>

\* the scripts are started again within the same second, after a load or
\* after a run that a failure ended
RunAgain ==
    /\ pc \in {"loaded", "failed"}
    /\ runs < MaxRuns
    /\ runs' = IF pc = "failed" THEN runs + 1 ELSE runs
    /\ pc' = "idle"
    /\ UNCHANGED <<rawFile, lastDate, watermark, normalized, aggregated, emitted, fileVars, error, feedVars>>

\* the state before the first run, the staging store apart
Fresh ==
    /\ rawFile = <<>>
    /\ watermark = None
    /\ normalized = <<>>
    /\ aggregated = <<>>
    /\ pc = "idle"
    /\ runs = 0
    /\ emitted = {}
    /\ clock = 1
    /\ dirs = [d \in {"cleaned", "aggregated"} |-> <<>>]
    /\ written = [d \in {"cleaned", "aggregated"} |-> 0]
    /\ error = "none"
    /\ allData = <<>>
    /\ supplied = {}

\* one run, from any state of the staging store
Init ==
    /\ Fresh
    /\ lastDate \in {None} \cup {Some(d) : d \in Dates}

Next ==
    \/ \E r \in RawTicks : NewRawFile(r)
    \/ \E r \in RawTicks : WriteRawRow(r)
    \/ Transform
    \/ Aggregate
    \/ LoadStaging

Spec == Init /\ [][Next]_vars

\* successive runs, from an empty staging store
InitRuns ==
    /\ Fresh
    /\ lastDate = None

NextRuns ==
    \/ \E r \in PlainTicks : NewRawFile(r)
    \/ \E r \in PlainTicks : WriteRawRow(r)
    \/ Transform
    \/ Aggregate
    \/ LoadStaging
    \/ NextRun

SpecRuns == InitRuns /\ [][NextRuns]_vars

\* scheduled runs that extract from the provider, with no failure
NextFeed ==
    \/ \E r \in PlainTicks : Fetch(r)
    \/ SaveRaw
    \/ Transform
    \/ Aggregate
    \/ LoadStaging
    \/ NextRun

SpecFeed == InitRuns /\ [][NextFeed]_vars

\* what can stop transform2's main: no raw file, the staging store out of
\* reach, an output file that cannot be opened
TransformFailures == {"no_input", "store", "write"}

\* what can stop aggregated2's main: no transformed file, an error in
\* aggregate_data, an output file that cannot be opened
AggregateFailures == {"no_input", "aggregation", "write"}

\* the whole pipeline, run after run: extraction from the provider,
\* transformation, aggregation and load, with the failures of the stages
\* and with runs started again at once
NextPipeline ==
    \/ \E r \in PlainTicks : Fetch(r)
    \/ SaveRaw
    \/ Transform
    \/ \E cause \in TransformFailures : TransformFails(cause)
    \/ Aggregate
    \/ \E cause \in AggregateFailures : AggregateFails(cause)
    \/ LoadStaging
    \/ NextRun
    \/ RunAgain

SpecPipeline == InitRuns /\ [][NextPipeline]_vars

\* the batches of the window runs: one company's closing prices, and at
\* most one row of a second company among the first three rows
WindowQuotes ==
    {[OpenPrice |-> Num(1), High |-> Num(2), Low |-> Num(1), ClosePrice |-> Num(1), Volume |-> Num(10)],
     [OpenPrice |-> Num(2), High |-> Num(3), Low |-> Num(2), ClosePrice |-> Num(2), Volume |-> Num(20)]}

OtherQuote ==
    [OpenPrice |-> Num(3), High |-> Num(4), Low |-> Num(3), ClosePrice |-> Num(3), Volume |-> Num(30)]

WindowTicks(d) ==
    {Tick([Symbol |-> "AAPL", CompanyName |-> "Apple Inc."], d, q) : q \in WindowQuotes}
        \cup {Tick([Symbol |-> "MSFT", CompanyName |-> "Microsoft Corp."], d, OtherQuote)}

\* the rows a window batch may hold next: the dates run oldest first, or
\* newest first as the provider lists a series
NextWindowTicks ==
    LET d == IF rawFile[1].Date = 1 THEN Len(rawFile) + 1 ELSE MaxWindowRows - Len(rawFile)
        others == Len(SelectSeq(rawFile, LAMBDA r : r.Symbol = "MSFT"))
    IN  IF Len(rawFile) = 0 THEN {}
        ELSE {r \in WindowTicks(d) : r.Symbol = "MSFT" => (others = 0 /\ Len(rawFile) < 3)}

\* one more row of the raw file of a window run
WriteWindowRow(r) ==
    /\ pc = "extract"
    /\ Len(rawFile) < MaxWindowRows
    /\ rawFile' = Append(rawFile, r)
    /\ UNCHANGED <<lastDate, watermark, normalized, aggregated, pc, runs, emitted, fileVars, error, feedVars>>

NextWindow ==
    \/ \E r \in WindowTicks(1) \cup WindowTicks(MaxWindowRows) : NewRawFile(r)
    \/ \E r \in NextWindowTicks : WriteWindowRow(r)
    \/ Transform
    \/ Aggregate

SpecWindow == InitRuns /\ [][NextWindow]_vars

\* raw batches in which two symbols are listed under one company name
SharedListings ==
    {[Symbol |-> "GOOG", CompanyName |-> "Alphabet Inc."],
     [Symbol |-> "GOOGL", CompanyName |-> "Alphabet Inc."],
     [Symbol |-> "AAPL", CompanyName |-> "Apple Inc."]}

SharedTicks == {Tick(l, d, q) : l \in SharedListings, d \in Dates, q \in WindowQuotes}

NextShared ==
    \/ \E r \in SharedTicks : NewRawFile(r)
    \/ \E r \in SharedTicks : WriteRawRow(r)
    \/ Transform
    \/ Aggregate

SpecShared == InitRuns /\ [][NextShared]_vars

(* ------------------------------ properties ----------------------------- *)

\* transform_data has written the normalized file of the current run
Ran == pc \in {"transformed", "aggregated", "loaded"}

\* aggregate_data has written the aggregated file of the current run
Summed == pc \in {"aggregated", "loaded"}

\* a raw row passes the incremental cutoff
PassesCutoff(r) == watermark = None \/ r.Date > watermark[1]

\* C1: with a watermark W the normalized output holds a row for an input
\* (Symbol, Date) pair if and only if Date > W, and with no watermark every
\* pair of the batch is in the output; the output holds no other pair.
C1_WatermarkExclusive ==
    Ran =>
        /\ \A i \in 1..Len(rawFile) :
              (<<rawFile[i].Symbol, rawFile[i].Date>> \in Pairs(normalized))
                  <=> PassesCutoff(rawFile[i])
        /\ \A j \in 1..Len(normalized) :
              /\ <<normalized[j].Symbol, normalized[j].Date>> \in Pairs(rawFile)
              /\ watermark # None => normalized[j].Date > watermark[1]

\* a run with a watermark that removes a row on the boundary or before it
\* and keeps a later one
C1_Witness ==
    /\ pc = "transformed"
    /\ watermark # None
    /\ \E i \in 1..Len(rawFile) : rawFile[i].Date = watermark[1]
    /\ \E i \in 1..Len(rawFile) : rawFile[i].Date > watermark[1]
    /\ Len(normalized) >= 1

\* the most recent Date the loaded runs emitted, None when they emitted nothing
MostRecentEmitted ==
    IF emitted = {} THEN None ELSE Some(Max({p[2] : p \in emitted}))

\* C2: when a run's watermark is the most recent Date emitted by the prior
\* runs, the run emits no (Symbol, Date) pair a prior run emitted; and a run
\* that is fed the raw batch of the prior run again emits zero rows.
C2_NoReemission ==
    /\ [](pc \in {"transformed", "aggregated"} /\ watermark = MostRecentEmitted
            => Pairs(normalized) \cap emitted = {})
    /\ [][pc = "idle" /\ pc' = "transformed" /\ watermark' = MostRecentEmitted
            => normalized' = <<>>]_vars

\* the raw batch of the prior run is fed again: all of it is stale
C2_Witness ==
    /\ pc = "transformed"
    /\ runs >= 1
    /\ Len(rawFile) >= 2
    /\ Pairs(rawFile) \subseteq emitted
    /\ watermark = Some(Max(DatesOf(rawFile)))
    /\ normalized = <<>>

\* the (Symbol, Date) pairs of the raw rows that pass the cutoff
FilteredInputPairs ==
    {<<rawFile[i].Symbol, rawFile[i].Date>> :
        i \in {k \in 1..Len(rawFile) : PassesCutoff(rawFile[k])}}

\* C3: the normalized output holds no (Symbol, Date) pair twice, and its
\* pairs are exactly the pairs of the watermark-filtered input.
C3_UniquePairs ==
    Ran =>
        /\ \A i, j \in 1..Len(normalized) :
              i # j => <<normalized[i].Symbol, normalized[i].Date>>
                        # <<normalized[j].Symbol, normalized[j].Date>>
        /\ Pairs(normalized) = FilteredInputPairs
        /\ Len(normalized) = Cardinality(FilteredInputPairs)

\* a batch with a repeated pair: the repetition was dropped
C3_Witness ==
    /\ pc = "transformed"
    /\ Len(normalized) >= 1
    /\ Len(normalized) < Cardinality({k \in 1..Len(rawFile) : PassesCutoff(rawFile[k])})

\* the output rows of the Symbol of row j that are dated before it
EarlierRows(j) ==
    {k \in 1..Len(normalized) :
        /\ normalized[k].Symbol = normalized[j].Symbol
        /\ normalized[k].Date < normalized[j].Date}

\* the row of EarlierRows(j) with the greatest Date
ChronologicalPrevious(j) ==
    CHOOSE k \in EarlierRows(j) :
        \A m \in EarlierRows(j) : normalized[m].Date <= normalized[k].Date

\* no row of the Symbol of row j has a ClosePrice of 0
NoZeroClose(j) ==
    \A k \in 1..Len(normalized) :
        normalized[k].Symbol = normalized[j].Symbol
            => normalized[k].ClosePrice # Num(0)

\* C4: for any row order of the batch, DailyReturn is computed against the
\* chronologically previous row of the Symbol, and is 0.0 for the row with
\* the earliest Date of the Symbol (stated for the symbols none of whose
\* closes is 0, where the quotient is defined).
C4_ChronologicalReturn ==
    Ran =>
        \A j \in 1..Len(normalized) :
            NoZeroClose(j) =>
                IF EarlierRows(j) = {} THEN normalized[j].DailyReturn = Num(0)
                ELSE LET p == normalized[ChronologicalPrevious(j)].ClosePrice
                     IN  normalized[j].DailyReturn
                            = FDiv(FSub(normalized[j].ClosePrice, p), p)

\* the output rows of the Symbol of row j that precede it in the file
RowsBefore(j) ==
    {k \in 1..(j - 1) : normalized[k].Symbol = normalized[j].Symbol}

\* C5: every DailyReturn is a finite number, and it is 0.0 when the row has
\* no previous close or the previous close is 0.
C5_FiniteReturn ==
    Ran =>
        \A j \in 1..Len(normalized) :
            /\ IsFinite(normalized[j].DailyReturn)
            /\ (RowsBefore(j) = {} \/ normalized[Max(RowsBefore(j))].ClosePrice = Num(0))
                  => normalized[j].DailyReturn = Num(0)

\* C6: the rows written are ordered by CompanyID and, within one CompanyID,
\* by Date ascending (stated over the rows whose CompanyID is not null).
C6_OrderedOutput ==
    Ran =>
        \A i, j \in 1..Len(normalized) :
            (i < j /\ ~IsNull(normalized[i].CompanyID) /\ ~IsNull(normalized[j].CompanyID))
                => \/ normalized[i].CompanyID.n < normalized[j].CompanyID.n
                   \/ /\ normalized[i].CompanyID = normalized[j].CompanyID
                      /\ normalized[i].Date <= normalized[j].Date

\* a row without its RecordID
Content(r) == [c \in DOMAIN r \ {"RecordID"} |-> r[c]]

Contents(df) == [i \in 1..Len(df) |-> Content(df[i])]

Known(r) == r.CompanyName \in DOMAIN COMPANY_ID_MAP

\* C7: a raw row of a company that is not in the mapping is kept, with a
\* null CompanyID, and the other rows are emitted as they are for the batch
\* without that company's rows.
C7_UnknownCompanyKept ==
    Ran =>
        /\ \A i \in 1..Len(rawFile) :
              (PassesCutoff(rawFile[i]) /\ ~Known(rawFile[i]))
                  => \E j \in 1..Len(normalized) :
                        /\ normalized[j].Symbol = rawFile[i].Symbol
                        /\ normalized[j].Date = rawFile[i].Date
                        /\ IsNull(normalized[j].CompanyID)
        /\ Contents(SelectSeq(normalized, Known))
              = Contents(transform_data(SelectSeq(rawFile, Known), watermark, runs))

\* a batch with a row of an unknown company next to a row of a known one
C7_Witness ==
    /\ pc = "transformed"
    /\ \E j \in 1..Len(normalized) : IsNull(normalized[j].CompanyID)
    /\ \E j \in 1..Len(normalized) : ~IsNull(normalized[j].CompanyID)

\* C8: aggregate_data returns exactly one row per distinct CompanyID of its
\* input, the null CompanyID of unresolved companies included.
C8_OneRowPerCompany ==
    Summed =>
        /\ {aggregated[x].CompanyID : x \in 1..Len(aggregated)}
              = {normalized[i].CompanyID : i \in 1..Len(normalized)}
        /\ \A x, y \in 1..Len(aggregated) :
              x # y => aggregated[x].CompanyID # aggregated[y].CompanyID

\* C9: a company whose group has exactly one row is reported with
\* VolatilityIndex = 0.0.
C9_SingleRowVolatility ==
    Summed =>
        \A x \in 1..Len(aggregated) :
            Len(GroupRows(normalized, aggregated[x].CompanyID)) = 1
                => aggregated[x].VolatilityIndex = Num(0)

\* C10: the per-row HighLowRatio is High / Low when Low is not 0 and 0.0
\* when Low is 0, and the per-company mean HighLowRatio is finite.
C10_FiniteHighLowRatio ==
    Summed =>
        /\ \A i \in 1..Len(normalized) :
              HighLowRatio(normalized[i])
                  = IF normalized[i].Low = Num(0) THEN Num(0)
                    ELSE FDiv(normalized[i].High, normalized[i].Low)
        /\ \A x \in 1..Len(aggregated) : IsFinite(aggregated[x].HighLowRatio)

\* the frame aggregate_data leaves behind for the batch it summed: one
\* row of derived columns per row of the batch
enriched == derived_columns(normalized)

\* the rows of the derived frame that belong to company c
EnrichedRows(c) == SelectSeq(enriched, LAMBDA r : r.CompanyID = c)

\* the companies of the batch
Companies == {normalized[i].CompanyID : i \in 1..Len(normalized)} \ {NaN}

\* the rows of the batch that belong to company c, in the order of the batch
Partition(c) == SelectSeq(normalized, LAMBDA r : r.CompanyID = c)

\* C11: a company with fewer than 5 rows in the batch has a 5-day moving
\* average of 0 and a Trend of 0 on every row, and aggregate_data reports
\* MovingAvg5Day = 0 and TrendAnalysis = 0 for it.
C11_ShortPartitionZero ==
    Summed =>
        \A c \in Companies :
            Len(Partition(c)) < 5 =>
                /\ LET e == EnrichedRows(c)
                   IN  /\ Len(e) = Len(Partition(c))
                       /\ \A k \in 1..Len(e) :
                             /\ e[k].MovingAvg5 = Num(0)
                             /\ e[k].Trend = Num(0)
                /\ \E x \in 1..Len(aggregated) : aggregated[x].CompanyID = c
                /\ \A x \in 1..Len(aggregated) :
                      aggregated[x].CompanyID = c =>
                          /\ aggregated[x].MovingAvg5Day = Num(0)
                          /\ aggregated[x].TrendAnalysis = Num(0)

\* a batch of a company with 4 rows next to the rows of another company
C11_Witness ==
    /\ pc = "aggregated"
    /\ Len(GroupRows(normalized, Num(1))) = 4
    /\ Len(EnrichedRows(Num(1))) = 4
    /\ Len(GroupRows(normalized, Num(2))) = 1
    /\ \E x \in 1..Len(aggregated) :
          aggregated[x].CompanyID = Num(1) /\ aggregated[x].MovingAvg5Day = Num(0)

RECURSIVE CloseSum(_, _, _)
CloseSum(g, a, b) == IF a > b THEN Num(0) ELSE FAdd(g[a].ClosePrice, CloseSum(g, a + 1, b))

\* the arithmetic mean of ClosePrice over rows k-N+1..k, 0 before row N
MeanOfLast(g, k, N) == IF k >= N THEN FDiv(CloseSum(g, k - N + 1, k), Num(N)) ELSE Num(0)

\* ((ClosePrice[k] / ClosePrice[k-5]) - 1) * 100, 0 on the first 5 rows
ChangeOverFive(g, k) ==
    IF k >= 6
    THEN FMul(FSub(FDiv(g[k].ClosePrice, g[k - 5].ClosePrice), Num(1)), Num(100))
    ELSE Num(0)

\* C12: within each company's partition the N-day moving average (N = 5, 10)
\* of the k-th row is the mean of ClosePrice over rows k-N+1..k when k >= N
\* and 0 when k < N, and the Trend of the k-th row is
\* ((ClosePrice[k] / ClosePrice[k-5]) - 1) * 100 when k >= 6 and 0 on the
\* first 5 rows; the rows of another company are in no window.
C12_WindowValues ==
    Summed =>
        \A c \in Companies :
            LET g == Partition(c)
                e == EnrichedRows(c)
            IN  /\ Len(e) = Len(g)
                /\ \A k \in 1..Len(g) :
                      /\ e[k].MovingAvg5 = MeanOfLast(g, k, 5)
                      /\ e[k].MovingAvg10 = MeanOfLast(g, k, 10)
                      /\ e[k].Trend = ChangeOverFive(g, k)

\* a company with 10 rows: the 5-day average is 0 on row 4 and given on
\* row 5, the Trend is 0 on row 5 and not 0 on row 6, the 10-day average
\* is given on row 10
C12_Witness ==
    /\ pc = "aggregated"
    /\ Len(EnrichedRows(Num(1))) = 10
    /\ EnrichedRows(Num(1))[4].MovingAvg5 = Num(0)
    /\ EnrichedRows(Num(1))[5].MovingAvg5 # Num(0)
    /\ EnrichedRows(Num(1))[5].Trend = Num(0)
    /\ EnrichedRows(Num(1))[6].Trend # Num(0)
    /\ EnrichedRows(Num(1))[9].MovingAvg10 = Num(0)
    /\ EnrichedRows(Num(1))[10].MovingAvg10 # Num(0)

\* the rows of company c by ascending Date
ChronologicalPartition(c) ==
    LET g == Partition(c)
        rows == {g[k] : k \in 1..Len(g)}
    IN  [k \in 1..Cardinality(rows) |->
            CHOOSE r \in rows : Cardinality({q \in rows : q.Date < r.Date}) = k - 1]

\* C15: for any row order of the batch, the MovingAvg5Day and MovingAvg10Day
\* aggregate_data reports for a company are the moving averages of the
\* company's row of the greatest Date.
C15_MostRecentMovingAvg ==
    Summed =>
        \A x \in 1..Len(aggregated) :
            LET g == ChronologicalPartition(aggregated[x].CompanyID)
            IN  /\ aggregated[x].MovingAvg5Day = MeanOfLast(g, Len(g), 5)
                /\ aggregated[x].MovingAvg10Day = MeanOfLast(g, Len(g), 10)

\* C13: the writer never overwrites an artifact: in each output directory
\* the number of artifacts equals the number of successful writes, and the
\* content of every earlier write is still there, also when two writes
\* happen within the same clock second.
C13_NoOverwrite ==
    \A d \in DOMAIN dirs :
        /\ Cardinality(DOMAIN dirs[d]) = written[d]
        /\ \A w \in 1..written[d] : \E t \in DOMAIN dirs[d] : dirs[d][t] = w

\* C14: a stage that fails writes no artifact and its error reaches the
\* caller of the run as a raised error, the aggregation run included.
C14_NoPartialSuccess == pc = "failed" => error = "raised"

\* C17: no row the provider supplied is skipped for good: after a load,
\* every (Symbol, Date) pair supplied so far has been emitted by a run or
\* is still after the stored boundary, which never moves back.
C17_NoRowSkipped ==
    pc = "loaded" =>
        \A p \in supplied :
            \/ p \in emitted
            \/ lastDate = None
            \/ p[2] > lastDate[1]

OneSymbol(c) == Cardinality({Partition(c)[k].Symbol : k \in 1..Len(Partition(c))}) = 1

====
